---- MODULE Spec2Model ----
(***************************************************************************)
(* GovernanceBudgetAllocator (src/src/lib.rs): a Soroban contract keeping  *)
(* three persistent records (Owner, Operators, Budget) and nine entry      *)
(* points.  Each entry point is a pure function from the storage before    *)
(* the call and the call's arguments to the storage after the call, the    *)
(* outcome and the returned value; each action applies one entry point     *)
(* and records the call in `last`.                                         *)
(*                                                                         *)
(* i128 is modelled as a two's-complement integer of IntBits bits, so the  *)
(* checked arithmetic has a range that the inputs can leave.               *)
(***************************************************************************)
EXTENDS Integers, Sequences, FiniteSets, TLC

VARIABLES store, last

vars == <<store, last>>

\* ------------------------------------------------------------------ bounds

\* Width of the signed integer standing for i128.
IntBits == 3

IntMax == 2 ^ (IntBits - 1) - 1
IntMin == -(2 ^ (IntBits - 1))
Int128 == IntMin .. IntMax

\* Addresses that can own, operate or invoke.
Principals == {"alice", "bob", "carol"}

\* Arguments the environment passes to initialize and to the budget operations:
\* the ends of the integer range and the values next to zero, so that valid and
\* invalid limits, sums that stay in range, sums that leave [min, max] and sums
\* that leave the integer range all occur.
InitialValues == {IntMin, 0, IntMax}
MinValues == {IntMin, 0}
MaxValues == {0, IntMax}
Amounts == {IntMin, -1, 0, 1, IntMax}

\* ----------------------------------------------------------------- storage

\* DataKey
Keys == {"Owner", "Operators", "Budget"}

\* Persistent storage with no entry.
EmptyStore == [k \in {} |-> 0]

\* env.storage().persistent().get(&key) is Some
Has(st, k) == k \in DOMAIN st

\* env.storage().persistent().set(&key, &value)
Set(st, k, v) == [x \in (DOMAIN st) \cup {k} |-> IF x = k THEN v ELSE st[x]]

\* BudgetState
BudgetState(current, min, max) == [current |-> current, min |-> min, max |-> max]

\* ---------------------------------------------------------------- outcomes

\* BudgetError
BudgetError ==
    {"NotOwner", "NotOperator", "AlreadyOperator", "NotOperatorFound",
     "Overflow", "Underflow", "ExceedsMax", "BelowMin", "InvalidLimits"}

NoRet == "none"
Unit == "unit"

\* Ok(value): the storage written by the call is kept.
Ok(st, v) == [store |-> st, result |-> "Ok", ret |-> v]

\* Err(e): the call returns before any write.
Err(st, e) == [store |-> st, result |-> e, ret |-> NoRet]

\* panic! or unwrap() of an absent entry: the host traps and keeps the storage
\* of before the call.
Panic(st) == [store |-> st, result |-> "Panic", ret |-> NoRet]

\* require_auth failed: the host aborts the invocation.
AuthAbort(st) == [store |-> st, result |-> "AuthAbort", ret |-> NoRet]

\* require_auth that lets every invocation through.
require_auth_skipped(invoker, caller) == TRUE

\* caller.require_auth(): the invocation is authorized by `caller`.
require_auth(invoker, caller) == invoker = caller

\* for op in operators.iter() { if op == a { ... } }
Contains(ops, a) == \E i \in DOMAIN ops : ops[i] = a

\* Addition that wraps around the integer range instead of failing.
wrapping_add(a, b) ==
    LET s == a + b
        w == ((s - IntMin) % (2 ^ IntBits)) + IntMin
    IN  [some |-> TRUE, val |-> w]

\* i128::checked_add
checked_add(a, b) ==
    LET s == a + b
    IN  IF s < IntMin \/ s > IntMax THEN [some |-> FALSE, val |-> 0]
                                   ELSE [some |-> TRUE, val |-> s]

\* i128::checked_sub
checked_sub(a, b) ==
    LET s == a - b
    IN  IF s < IntMin \/ s > IntMax THEN [some |-> FALSE, val |-> 0]
                                   ELSE [some |-> TRUE, val |-> s]

\* ------------------------------------------------------------ entry points

\* initialize that keeps an OperatorSet already stored.
initialize_keeps_operators(st, owner, initial, min, max) ==
    IF min > initial \/ initial > max
    THEN Panic(st)
    ELSE Ok(Set(Set(Set(st, "Owner", owner),
                    "Operators", IF Has(st, "Operators") THEN st["Operators"] ELSE << >>),
                "Budget", BudgetState(initial, min, max)),
            Unit)

initialize(st, owner, initial, min, max) ==
    IF min > initial \/ initial > max
    THEN Panic(st)
    ELSE Ok(Set(Set(Set(st, "Owner", owner),
                    "Operators", << >>),
                "Budget", BudgetState(initial, min, max)),
            Unit)

\* add_operator that scans for an existing member before it checks the owner.
add_operator_scans_first(st, invoker, caller, operator) ==
    IF ~require_auth(invoker, caller) THEN AuthAbort(st)
    ELSE IF ~Has(st, "Operators") THEN Panic(st)
    ELSE IF Contains(st["Operators"], operator) THEN Err(st, "AlreadyOperator")
    ELSE IF ~Has(st, "Owner") THEN Panic(st)
    ELSE IF caller # st["Owner"] THEN Err(st, "NotOwner")
    ELSE Ok(Set(st, "Operators", Append(st["Operators"], operator)), Unit)

\* add_operator without the scan for an existing member.
add_operator_without_scan(st, invoker, caller, operator) ==
    IF ~require_auth(invoker, caller) THEN AuthAbort(st)
    ELSE IF ~Has(st, "Owner") THEN Panic(st)
    ELSE IF caller # st["Owner"] THEN Err(st, "NotOwner")
    ELSE IF ~Has(st, "Operators") THEN Panic(st)
    ELSE Ok(Set(st, "Operators", Append(st["Operators"], operator)), Unit)

add_operator(st, invoker, caller, operator) ==
    IF ~require_auth(invoker, caller) THEN AuthAbort(st)
    ELSE IF ~Has(st, "Owner") THEN Panic(st)
    ELSE IF caller # st["Owner"] THEN Err(st, "NotOwner")
    ELSE IF ~Has(st, "Operators") THEN Panic(st)
    ELSE IF Contains(st["Operators"], operator) THEN Err(st, "AlreadyOperator")
    ELSE Ok(Set(st, "Operators", Append(st["Operators"], operator)), Unit)

\* remove_operator that writes back the sequence it read.
remove_operator_keeps(st, invoker, caller, operator) ==
    IF ~require_auth(invoker, caller) THEN AuthAbort(st)
    ELSE IF ~Has(st, "Owner") THEN Panic(st)
    ELSE IF caller # st["Owner"] THEN Err(st, "NotOwner")
    ELSE IF ~Has(st, "Operators") THEN Panic(st)
    ELSE LET operators == st["Operators"]
             found == Contains(operators, operator)
         IN  IF ~found THEN Err(st, "NotOperatorFound")
             ELSE Ok(Set(st, "Operators", operators), Unit)

\* remove_operator that moves the last entry into the place of the removed one.
remove_operator_swap_pop(st, invoker, caller, operator) ==
    IF ~require_auth(invoker, caller) THEN AuthAbort(st)
    ELSE IF ~Has(st, "Owner") THEN Panic(st)
    ELSE IF caller # st["Owner"] THEN Err(st, "NotOwner")
    ELSE IF ~Has(st, "Operators") THEN Panic(st)
    ELSE LET operators == st["Operators"]
             found == Contains(operators, operator)
             n == Len(operators)
             at == CHOOSE i \in 1 .. n : operators[i] = operator
             new_operators ==
                 [i \in 1 .. (n - 1) |-> IF i = at THEN operators[n] ELSE operators[i]]
         IN  IF ~found THEN Err(st, "NotOperatorFound")
             ELSE Ok(Set(st, "Operators", new_operators), Unit)

remove_operator(st, invoker, caller, operator) ==
    IF ~require_auth(invoker, caller) THEN AuthAbort(st)
    ELSE IF ~Has(st, "Owner") THEN Panic(st)
    ELSE IF caller # st["Owner"] THEN Err(st, "NotOwner")
    ELSE IF ~Has(st, "Operators") THEN Panic(st)
    ELSE LET operators == st["Operators"]
             found == Contains(operators, operator)
             new_operators == SelectSeq(operators, LAMBDA op : op # operator)
         IN  IF ~found THEN Err(st, "NotOperatorFound")
             ELSE Ok(Set(st, "Operators", new_operators), Unit)

\* increase_budget that raises max to a new value above it.
increase_budget_raises_max(st, invoker, caller, amount) ==
    IF ~require_auth(invoker, caller) THEN AuthAbort(st)
    ELSE IF ~Has(st, "Operators") THEN Panic(st)
    ELSE IF ~Contains(st["Operators"], caller) THEN Err(st, "NotOperator")
    ELSE IF ~Has(st, "Budget") THEN Panic(st)
    ELSE LET budget == st["Budget"]
             new_value == checked_add(budget.current, amount)
         IN  IF ~new_value.some THEN Err(st, "Overflow")
             ELSE IF new_value.val > budget.max
                  THEN Ok(Set(st, "Budget",
                              BudgetState(new_value.val, budget.min, new_value.val)),
                          new_value.val)
             ELSE Ok(Set(st, "Budget", [budget EXCEPT !.current = new_value.val]),
                     new_value.val)

\* increase_budget whose max is exclusive.
increase_budget_exclusive_max(st, invoker, caller, amount) ==
    IF ~require_auth(invoker, caller) THEN AuthAbort(st)
    ELSE IF ~Has(st, "Operators") THEN Panic(st)
    ELSE IF ~Contains(st["Operators"], caller) THEN Err(st, "NotOperator")
    ELSE IF ~Has(st, "Budget") THEN Panic(st)
    ELSE LET budget == st["Budget"]
             new_value == checked_add(budget.current, amount)
         IN  IF ~new_value.some THEN Err(st, "Overflow")
             ELSE IF new_value.val >= budget.max THEN Err(st, "ExceedsMax")
             ELSE Ok(Set(st, "Budget", [budget EXCEPT !.current = new_value.val]),
                     new_value.val)

\* increase_budget that returns the value of before the call.
increase_budget_returns_old(st, invoker, caller, amount) ==
    IF ~require_auth(invoker, caller) THEN AuthAbort(st)
    ELSE IF ~Has(st, "Operators") THEN Panic(st)
    ELSE IF ~Contains(st["Operators"], caller) THEN Err(st, "NotOperator")
    ELSE IF ~Has(st, "Budget") THEN Panic(st)
    ELSE LET budget == st["Budget"]
             new_value == checked_add(budget.current, amount)
         IN  IF ~new_value.some THEN Err(st, "Overflow")
             ELSE IF new_value.val > budget.max THEN Err(st, "ExceedsMax")
             ELSE Ok(Set(st, "Budget", [budget EXCEPT !.current = new_value.val]),
                     budget.current)

\* increase_budget that stores the new value before it checks it against max.
increase_budget_writes_first(st, invoker, caller, amount) ==
    IF ~require_auth(invoker, caller) THEN AuthAbort(st)
    ELSE IF ~Has(st, "Operators") THEN Panic(st)
    ELSE IF ~Contains(st["Operators"], caller) THEN Err(st, "NotOperator")
    ELSE IF ~Has(st, "Budget") THEN Panic(st)
    ELSE LET budget == st["Budget"]
             new_value == checked_add(budget.current, amount)
             written == Set(st, "Budget", [budget EXCEPT !.current = new_value.val])
         IN  IF ~new_value.some THEN Err(st, "Overflow")
             ELSE IF new_value.val > budget.max
                  THEN [store |-> written, result |-> "ExceedsMax", ret |-> NoRet]
             ELSE Ok(written, new_value.val)

increase_budget(st, invoker, caller, amount) ==
    IF ~require_auth(invoker, caller) THEN AuthAbort(st)
    ELSE IF ~Has(st, "Operators") THEN Panic(st)
    ELSE IF ~Contains(st["Operators"], caller) THEN Err(st, "NotOperator")
    ELSE IF ~Has(st, "Budget") THEN Panic(st)
    ELSE LET budget == st["Budget"]
             new_value == checked_add(budget.current, amount)
         IN  IF ~new_value.some THEN Err(st, "Overflow")
             ELSE IF new_value.val > budget.max THEN Err(st, "ExceedsMax")
             ELSE Ok(Set(st, "Budget", [budget EXCEPT !.current = new_value.val]),
                     new_value.val)

\* decrease_budget that also lets the owner through.
decrease_budget_owner_allowed(st, invoker, caller, amount) ==
    IF ~require_auth(invoker, caller) THEN AuthAbort(st)
    ELSE IF ~Has(st, "Operators") THEN Panic(st)
    ELSE IF ~(Contains(st["Operators"], caller)
              \/ (Has(st, "Owner") /\ caller = st["Owner"]))
         THEN Err(st, "NotOperator")
    ELSE IF ~Has(st, "Budget") THEN Panic(st)
    ELSE LET budget == st["Budget"]
             new_value == checked_sub(budget.current, amount)
         IN  IF ~new_value.some THEN Err(st, "Underflow")
             ELSE IF new_value.val < budget.min THEN Err(st, "BelowMin")
             ELSE Ok(Set(st, "Budget", [budget EXCEPT !.current = new_value.val]),
                     new_value.val)

decrease_budget(st, invoker, caller, amount) ==
    IF ~require_auth(invoker, caller) THEN AuthAbort(st)
    ELSE IF ~Has(st, "Operators") THEN Panic(st)
    ELSE IF ~Contains(st["Operators"], caller) THEN Err(st, "NotOperator")
    ELSE IF ~Has(st, "Budget") THEN Panic(st)
    ELSE LET budget == st["Budget"]
             new_value == checked_sub(budget.current, amount)
         IN  IF ~new_value.some THEN Err(st, "Underflow")
             ELSE IF new_value.val < budget.min THEN Err(st, "BelowMin")
             ELSE Ok(Set(st, "Budget", [budget EXCEPT !.current = new_value.val]),
                     new_value.val)

get_budget(st) ==
    IF ~Has(st, "Budget") THEN Panic(st) ELSE Ok(st, st["Budget"])

get_owner(st) ==
    IF ~Has(st, "Owner") THEN Panic(st) ELSE Ok(st, st["Owner"])

\* get_operators that returns the empty sequence when no record is stored.
get_operators_or_empty(st) ==
    IF ~Has(st, "Operators") THEN Ok(st, << >>) ELSE Ok(st, st["Operators"])

get_operators(st) ==
    IF ~Has(st, "Operators") THEN Panic(st) ELSE Ok(st, st["Operators"])

\* is_operator whose scan stops before the last entry.
is_operator_skips_last(st, address) ==
    IF ~Has(st, "Operators") THEN Panic(st)
    ELSE Ok(st, \E i \in 1 .. (Len(st["Operators"]) - 1) : st["Operators"][i] = address)

is_operator(st, address) ==
    IF ~Has(st, "Operators") THEN Panic(st)
    ELSE Ok(st, Contains(st["Operators"], address))

\* ----------------------------------------------------------------- actions

\* Stands for the caller of an entry point that takes no caller argument.
NoOne == "none"

NoCall == [op |-> "none", invoker |-> NoOne, caller |-> NoOne,
           result |-> "none", ret |-> NoRet]

\* The invocation of `op` by `invoker`, claiming to be `caller`, had outcome r.
Call(op, invoker, caller, r) ==
    /\ store' = r.store
    /\ last' = [op |-> op, invoker |-> invoker, caller |-> caller,
                result |-> r.result, ret |-> r.ret]

Init ==
    /\ store = EmptyStore
    /\ last = NoCall

Initialize ==
    \E owner \in Principals,
       initial \in InitialValues, min \in MinValues, max \in MaxValues :
        Call("initialize", NoOne, NoOne,
             initialize(store, owner, initial, min, max))

AddOperator ==
    \E invoker \in Principals, caller \in Principals, operator \in Principals :
        Call("add_operator", invoker, caller,
             add_operator(store, invoker, caller, operator))

RemoveOperator ==
    \E invoker \in Principals, caller \in Principals, operator \in Principals :
        Call("remove_operator", invoker, caller,
             remove_operator(store, invoker, caller, operator))

IncreaseBudget ==
    \E invoker \in Principals, caller \in Principals, amount \in Amounts :
        Call("increase_budget", invoker, caller,
             increase_budget(store, invoker, caller, amount))

DecreaseBudget ==
    \E invoker \in Principals, caller \in Principals, amount \in Amounts :
        Call("decrease_budget", invoker, caller,
             decrease_budget(store, invoker, caller, amount))

GetBudget == Call("get_budget", NoOne, NoOne, get_budget(store))

GetOwner == Call("get_owner", NoOne, NoOne, get_owner(store))

GetOperators == Call("get_operators", NoOne, NoOne, get_operators(store))

IsOperator ==
    \E address \in Principals :
        Call("is_operator", NoOne, NoOne, is_operator(store, address))

Next ==
    \/ Initialize
    \/ AddOperator
    \/ RemoveOperator
    \/ IncreaseBudget
    \/ DecreaseBudget
    \/ GetBudget
    \/ GetOwner
    \/ GetOperators
    \/ IsOperator

Spec == Init /\ [][Next]_vars

\* ------------------------------------------------------------------ states

\* No record is present.
Uninitialized == DOMAIN store = {}

\* All three records are present.
Active == DOMAIN store = Keys

\* The entry points that start with caller.require_auth().
AuthOps == {"add_operator", "remove_operator", "increase_budget", "decrease_budget"}

BudgetOps == {"increase_budget", "decrease_budget"}

\* The step is the invocation of `op` with outcome r.
IsCall(op, r) ==
    /\ store' = r.store
    /\ last'.op = op
    /\ last'.result = r.result
    /\ last'.ret = r.ret

\* ------------------------------------------------------------------ claims

\* C1: in every reachable state with a Budget record, min <= current <= max.
BudgetWithinBounds ==
    Has(store, "Budget") =>
        /\ store["Budget"].min <= store["Budget"].current
        /\ store["Budget"].current <= store["Budget"].max

\* C2: the stored OperatorSet never holds a principal twice, and add_operator
\* called by the owner for a member returns AlreadyOperator and appends nothing.
NoDuplicateOperators ==
    Active =>
        /\ \A i, j \in DOMAIN store["Operators"] :
               i # j => store["Operators"][i] # store["Operators"][j]
        /\ \A operator \in Principals :
               Contains(store["Operators"], operator) =>
                   add_operator(store, store["Owner"], store["Owner"], operator)
                       = Err(store, "AlreadyOperator")

C2Witness ==
    /\ Active
    /\ last.op = "add_operator"
    /\ last.result = "AlreadyOperator"
    /\ Len(store["Operators"]) >= 2

\* C3: once the instance is initialized, no step changes the stored Owner or
\* the stored bounds min and max.
OwnerAndBoundsNeverChange ==
    [][Active =>
          /\ Active'
          /\ store'["Owner"] = store["Owner"]
          /\ store'["Budget"].min = store["Budget"].min
          /\ store'["Budget"].max = store["Budget"].max]_vars

\* C4: every step of an initialized instance that changes the stored
\* OperatorSet is an add_operator or remove_operator invoked by, and
\* authenticated as, the stored Owner.
OperatorSetMutatedOnlyByOwner ==
    [][(Active /\ store'["Operators"] # store["Operators"]) =>
          /\ last'.op \in {"add_operator", "remove_operator"}
          /\ last'.invoker = store["Owner"]
          /\ last'.caller = store["Owner"]]_vars

\* C5: increase_budget and decrease_budget change the storage only for an
\* authenticated caller that is a member of the OperatorSet at the time of the
\* call; on an initialized instance any other authenticated caller, the owner
\* included, gets NotOperator and the storage stays as it was.
BudgetMutatedOnlyByOperators ==
    \A invoker \in Principals, caller \in Principals, amount \in Amounts :
        LET inc == increase_budget(store, invoker, caller, amount)
            dec == decrease_budget(store, invoker, caller, amount)
            member == Has(store, "Operators") /\ Contains(store["Operators"], caller)
        IN  /\ (inc.store # store \/ dec.store # store) =>
                   (member /\ invoker = caller)
            /\ (Active /\ invoker = caller /\ ~member) =>
                   /\ inc = Err(store, "NotOperator")
                   /\ dec = Err(store, "NotOperator")

C5Witness ==
    /\ Active
    /\ last.op \in BudgetOps
    /\ last.result = "NotOperator"
    /\ last.caller = store["Owner"]
    /\ store["Operators"] # << >>

\* C6: an add_operator, remove_operator, increase_budget or decrease_budget
\* whose invoker is not authenticated as the caller argument aborts: the
\* storage is unchanged and the outcome is the abort, not a BudgetError.
UnauthenticatedCallAborts ==
    [][(last'.op \in AuthOps /\ last'.invoker # last'.caller) =>
          /\ store' = store
          /\ last'.result = "AuthAbort"
          /\ last'.result \notin BudgetError]_vars

C6Witness ==
    /\ Active
    /\ last.op = "add_operator"
    /\ last.result = "AuthAbort"
    /\ last.caller = store["Owner"]
    /\ last.invoker # store["Owner"]
    /\ ~Contains(store["Operators"], last.invoker)

\* C7: every step that is an initialize with min > initial or initial > max
\* fails with InvalidLimits and writes no record; an uninitialized instance
\* stays uninitialized, so that get_budget fails, and the records are all
\* present or all absent.
InvalidInitializeFailsWithInvalidLimits ==
    [][\A owner \in Principals, initial \in InitialValues,
          min \in MinValues, max \in MaxValues :
           ((min > initial \/ initial > max)
            /\ IsCall("initialize", initialize(store, owner, initial, min, max))) =>
               /\ last'.result = "InvalidLimits"
               /\ store' = store
               /\ Uninitialized' \/ Active'
               /\ Uninitialized => get_budget(store').result = "Panic"]_vars

\* The part of C7 about the storage: a rejected initialize panics and writes no
\* record, and the records are all present or all absent.
InvalidInitializeWritesNothing ==
    /\ Uninitialized \/ Active
    /\ \A owner \in Principals, initial \in InitialValues,
          min \in MinValues, max \in MaxValues :
           (min > initial \/ initial > max) =>
               LET r == initialize(store, owner, initial, min, max)
               IN  /\ r.result = "Panic"
                   /\ r.store = store
                   /\ Uninitialized => get_budget(r.store).result = "Panic"

\* C8: initialize with min <= initial <= max succeeds in every state and leaves
\* exactly Owner = owner, OperatorSet = << >> and Budget = {initial, min, max},
\* which get_budget then returns.
InitializeWritesAllRecords ==
    \A owner \in Principals, initial \in InitialValues,
       min \in MinValues, max \in MaxValues :
        (min <= initial /\ initial <= max) =>
            LET r == initialize(store, owner, initial, min, max)
            IN  /\ r.result = "Ok"
                /\ r.store = [Owner |-> owner, Operators |-> << >>,
                              Budget |-> BudgetState(initial, min, max)]
                /\ get_budget(r.store) = Ok(r.store, BudgetState(initial, min, max))

C8Witness ==
    /\ last.op = "initialize"
    /\ last.result = "Ok"
    /\ store["Operators"] = << >>
    /\ store["Budget"].min < store["Budget"].current
    /\ store["Budget"].current < store["Budget"].max

\* C9: a step of add_operator, remove_operator, increase_budget or
\* decrease_budget that returns a BudgetError leaves the storage as it was.
ErrorLeavesStorageUnchanged ==
    [][(last'.op \in AuthOps /\ last'.result \in BudgetError) => store' = store]_vars

C9Witness ==
    /\ Active
    /\ last.op = "increase_budget"
    /\ last.result = "ExceedsMax"
    /\ store["Budget"].current < store["Budget"].max

\* C10: for an operator, increase_budget fails with Overflow whenever
\* current + amount leaves the integer range and decrease_budget fails with
\* Underflow whenever current - amount leaves it, the storage staying as it
\* was; a successful call stores the exact sum or difference, and the stored
\* current is always in range.
ArithmeticNeverWraps ==
    Active =>
        /\ store["Budget"].current \in Int128
        /\ \A caller \in Principals, amount \in Amounts :
               Contains(store["Operators"], caller) =>
                   LET current == store["Budget"].current
                       inc == increase_budget(store, caller, caller, amount)
                       dec == decrease_budget(store, caller, caller, amount)
                   IN  /\ (current + amount \notin Int128) =>
                               inc = Err(store, "Overflow")
                       /\ (current - amount \notin Int128) =>
                               dec = Err(store, "Underflow")
                       /\ inc.result = "Ok" =>
                               inc.store["Budget"].current = current + amount
                       /\ dec.result = "Ok" =>
                               dec.store["Budget"].current = current - amount

C10Witness ==
    /\ Active
    /\ last.op = "decrease_budget"
    /\ last.result = "Underflow"
    /\ store["Budget"].current < 0

\* C11: the bound checks are inclusive: for an operator, increase_budget
\* succeeds when current + amount = max and fails with ExceedsMax for every
\* representable sum above max; decrease_budget succeeds when
\* current - amount = min and fails with BelowMin for every representable
\* difference below min.
BoundChecksInclusive ==
    Active =>
        \A caller \in Principals, amount \in Amounts :
            Contains(store["Operators"], caller) =>
                LET budget == store["Budget"]
                    sum == budget.current + amount
                    diff == budget.current - amount
                    inc == increase_budget(store, caller, caller, amount)
                    dec == decrease_budget(store, caller, caller, amount)
                IN  /\ sum = budget.max => inc.result = "Ok"
                    /\ (sum \in Int128 /\ sum > budget.max) =>
                           inc = Err(store, "ExceedsMax")
                    /\ diff = budget.min => dec.result = "Ok"
                    /\ (diff \in Int128 /\ diff < budget.min) =>
                           dec = Err(store, "BelowMin")

C11Witness ==
    /\ Active
    /\ last.op = "increase_budget"
    /\ last.result = "Ok"
    /\ store["Budget"].current = store["Budget"].max
    /\ store["Budget"].max < IntMax
    /\ store["Budget"].min < store["Budget"].max

\* C12: a successful increase_budget returns old current + amount, a successful
\* decrease_budget returns old current - amount, and the returned value is the
\* current that get_budget reports right after the call.
ReturnsNewCurrent ==
    /\ (last.op \in BudgetOps /\ last.result = "Ok") =>
           get_budget(store).ret.current = last.ret
    /\ Active =>
           \A caller \in Principals, amount \in Amounts :
               LET current == store["Budget"].current
                   inc == increase_budget(store, caller, caller, amount)
                   dec == decrease_budget(store, caller, caller, amount)
               IN  /\ inc.result = "Ok" =>
                       /\ inc.ret = current + amount
                       /\ get_budget(inc.store).ret.current = inc.ret
                   /\ dec.result = "Ok" =>
                       /\ dec.ret = current - amount
                       /\ get_budget(dec.store).ret.current = dec.ret

C12Witness ==
    /\ Active
    /\ last.op = "decrease_budget"
    /\ last.result = "Ok"
    /\ last.ret = store["Budget"].current
    /\ last.ret > 0

\* C13: on an initialized instance, after a successful add_operator(Owner, P)
\* is_operator(P) returns true, and after a successful remove_operator(Owner, P)
\* it returns false; a member stays a member in every step that is not a
\* successful remove_operator or initialize.
MembershipRoundTrip ==
    /\ [](Active =>
            \A P \in Principals :
                LET owner == store["Owner"]
                    added == add_operator(store, owner, owner, P)
                    removed == remove_operator(store, owner, owner, P)
                IN  /\ added.result = "Ok" =>
                        /\ is_operator(added.store, P) = Ok(added.store, TRUE)
                        /\ LET again == remove_operator(added.store, owner, owner, P)
                           IN  /\ again.result = "Ok"
                               /\ is_operator(again.store, P) = Ok(again.store, FALSE)
                    /\ removed.result = "Ok" =>
                        is_operator(removed.store, P) = Ok(removed.store, FALSE))
    /\ [][(Active /\ store' # store) =>
              \A P \in Principals :
                  (is_operator(store, P).ret /\ ~is_operator(store', P).ret) =>
                      /\ last'.op \in {"remove_operator", "initialize"}
                      /\ last'.result = "Ok"]_vars

C13Witness ==
    /\ Active
    /\ last.op = "remove_operator"
    /\ last.result = "Ok"
    /\ Len(store["Operators"]) = 2
    /\ \E P \in Principals : is_operator(store, P) = Ok(store, FALSE)

\* The entries of a sequence.
Range(seq) == {seq[i] : i \in DOMAIN seq}

\* The entries of `sub` are entries of `seq`, in the order they have in `seq`.
IsOrderedSubSeq(sub, seq) ==
    \E pos \in [DOMAIN sub -> DOMAIN seq] :
        /\ \A i \in DOMAIN sub : seq[pos[i]] = sub[i]
        /\ \A i, j \in DOMAIN sub : i < j => pos[i] < pos[j]

\* C14: a successful add_operator yields the previous sequence with the new
\* operator as last entry; a successful remove_operator yields the previous
\* sequence without the removed operator, the other entries all kept and in
\* their previous relative order.
OperatorOrderPreserved ==
    Active =>
        \A P \in Principals :
            LET owner == store["Owner"]
                operators == store["Operators"]
                added == add_operator(store, owner, owner, P)
                removed == remove_operator(store, owner, owner, P)
            IN  /\ added.result = "Ok" =>
                    LET new == added.store["Operators"]
                    IN  /\ Len(new) = Len(operators) + 1
                        /\ new[Len(new)] = P
                        /\ \A i \in DOMAIN operators : new[i] = operators[i]
                /\ removed.result = "Ok" =>
                    LET new == removed.store["Operators"]
                    IN  /\ Range(new) = Range(operators) \ {P}
                        /\ Len(new) = Len(operators) - 1
                        /\ IsOrderedSubSeq(new, operators)

C14Witness ==
    /\ Active
    /\ last.op = "remove_operator"
    /\ last.result = "Ok"
    /\ Len(store["Operators"]) = 2
    /\ store["Owner"] = store["Operators"][2]

\* The entry points that only read.
ReadOps == {"get_budget", "get_owner", "get_operators", "is_operator"}

\* C15: a step of get_budget, get_owner, get_operators or is_operator changes
\* no record; the same read repeated right after itself returns the same
\* result; and is_operator(a) is true exactly when a is an entry of the
\* sequence get_operators returns.
ReadsArePure ==
    /\ [](Active =>
            \A a \in Principals :
                is_operator(store, a).ret <=> (a \in Range(get_operators(store).ret)))
    /\ [][/\ last'.op \in ReadOps => store' = store
          /\ (last'.op \in ReadOps \ {"is_operator"} /\ last.op = last'.op) =>
                 (last'.result = last.result /\ last'.ret = last.ret)]_vars

C15Witness ==
    /\ Active
    /\ last.op = "is_operator"
    /\ last.result = "Ok"
    /\ last.ret = TRUE
    /\ Len(store["Operators"]) = 3

\* The outcomes that abort the invocation.
Aborts == {"Panic", "AuthAbort"}

\* C16: the records are all absent or all present; on an uninitialized
\* instance every step other than initialize aborts and leaves the instance
\* uninitialized, only a successful initialize makes it initialized, and an
\* initialized instance stays initialized.
TwoLifecycleStates ==
    /\ [](Uninitialized \/ Active)
    /\ [][/\ (Uninitialized /\ last'.op # "initialize") =>
                 (Uninitialized' /\ last'.result \in Aborts)
          /\ (Uninitialized /\ ~Uninitialized') =>
                 (Active' /\ last'.op = "initialize" /\ last'.result = "Ok")
          /\ Active => Active']_vars

C16Witness ==
    /\ Uninitialized
    /\ last.op = "get_operators"
    /\ last.result = "Panic"

\* C17: on an initialized instance a step of increase_budget or
\* decrease_budget leaves Owner, the OperatorSet, min and max as they were, and
\* a step of add_operator or remove_operator leaves Owner and the Budget record
\* as they were, whatever the outcome.
FrameConditions ==
    [][Active =>
          /\ last'.op \in BudgetOps =>
                 /\ store'["Owner"] = store["Owner"]
                 /\ store'["Operators"] = store["Operators"]
                 /\ store'["Budget"].min = store["Budget"].min
                 /\ store'["Budget"].max = store["Budget"].max
          /\ last'.op \in {"add_operator", "remove_operator"} =>
                 /\ store'["Owner"] = store["Owner"]
                 /\ store'["Budget"] = store["Budget"]]_vars

C17Witness ==
    /\ Active
    /\ last.op = "increase_budget"
    /\ last.result = "Ok"
    /\ last.ret = IntMax
    /\ Len(store["Operators"]) = 2

\* C18: the error of a failing call follows a fixed order of the checks:
\* add_operator and remove_operator report NotOwner before AlreadyOperator and
\* NotOperatorFound; increase_budget reports NotOperator, then Overflow, then
\* ExceedsMax; decrease_budget reports NotOperator, then Underflow, then
\* BelowMin.  The outcome for a non-operator does not depend on the amount.
ErrorPrecedence ==
    Active =>
        /\ \A caller \in Principals, P \in Principals :
               LET member == Contains(store["Operators"], P)
                   isOwner == caller = store["Owner"]
               IN  /\ add_operator(store, caller, caller, P).result =
                          IF ~isOwner THEN "NotOwner"
                          ELSE IF member THEN "AlreadyOperator" ELSE "Ok"
                   /\ remove_operator(store, caller, caller, P).result =
                          IF ~isOwner THEN "NotOwner"
                          ELSE IF ~member THEN "NotOperatorFound" ELSE "Ok"
        /\ \A caller \in Principals, amount \in Amounts :
               LET member == Contains(store["Operators"], caller)
                   budget == store["Budget"]
                   sum == budget.current + amount
                   diff == budget.current - amount
               IN  /\ increase_budget(store, caller, caller, amount).result =
                          IF ~member THEN "NotOperator"
                          ELSE IF sum \notin Int128 THEN "Overflow"
                          ELSE IF sum > budget.max THEN "ExceedsMax" ELSE "Ok"
                   /\ decrease_budget(store, caller, caller, amount).result =
                          IF ~member THEN "NotOperator"
                          ELSE IF diff \notin Int128 THEN "Underflow"
                          ELSE IF diff < budget.min THEN "BelowMin" ELSE "Ok"

C18Witness ==
    /\ Active
    /\ last.op = "add_operator"
    /\ last.result = "NotOwner"
    /\ last.invoker = last.caller
    /\ Len(store["Operators"]) = 3

\* C19: in every reachable state, for every operator P and amount a, a
\* successful increase_budget(P, a) is undone by decrease_budget(P, a), which
\* succeeds and restores the storage, and a successful decrease_budget(P, a) is
\* undone by increase_budget(P, a).
IncreaseDecreaseRoundTrip ==
    Active =>
        \A P \in Principals, a \in Amounts :
            LET inc == increase_budget(store, P, P, a)
                dec == decrease_budget(store, P, P, a)
            IN  /\ inc.result = "Ok" =>
                    LET back == decrease_budget(inc.store, P, P, a)
                    IN  back.result = "Ok" /\ back.store = store
                /\ dec.result = "Ok" =>
                    LET back == increase_budget(dec.store, P, P, a)
                    IN  back.result = "Ok" /\ back.store = store

\* The round trip of C19 from the states that satisfy min <= current <= max.
RoundTripWithinBounds ==
    (Active /\ BudgetWithinBounds) =>
        \A P \in Principals, a \in Amounts :
            LET inc == increase_budget(store, P, P, a)
                dec == decrease_budget(store, P, P, a)
            IN  /\ inc.result = "Ok" =>
                    LET back == decrease_budget(inc.store, P, P, a)
                    IN  back.result = "Ok" /\ back.store = store
                /\ dec.result = "Ok" =>
                    LET back == increase_budget(dec.store, P, P, a)
                    IN  back.result = "Ok" /\ back.store = store

====
